---- MODULE Spec2Model ----
(***************************************************************************)
(* A model of the VIN lookup/cache service (main.py, vin_app/models.py,    *)
(* vin_app/db.py): the two request validators, the field extractor         *)
(* process_result, and the three request handlers add_to_cache,            *)
(* remove_from_cache and export_cache working on the vin_records table.    *)
(*                                                                         *)
(* Strings that the code inspects character by character (the candidate    *)
(* VINs) are sequences of one-character strings.  Python's None is the     *)
(* value None below.  An HTTP outcome is named by the error taxonomy:      *)
(*   "OK"                200                                               *)
(*   "InvalidFormat"     422, the request model's validator raised         *)
(*   "NotFound"          HTTPException(404) raised by process_result       *)
(*   "RemoteUnavailable" HTTPException(500) raised by fetch_data           *)
(*   "InternalError"     500, an exception no handler of the code catches  *)
(***************************************************************************)
EXTENDS Integers, Sequences, FiniteSets, Bags, TLC

VARIABLES
    store,      \* the rows of the vin_records table
    inflight,   \* the bag of VINs whose lookup is suspended at `await fetch_data`
    last,       \* the response of the request that ended last
    sessions,   \* the number of database sessions that are open
    raw,        \* the Results list handed to process_result
    extracted   \* what process_result made of raw

vars == <<store, inflight, last, sessions, raw, extracted>>

(***************************************************************************)
(* Bounds of the model.                                                    *)
(***************************************************************************)
\* the longest Results list the extractor is run on
MaxRaw == 5

\* the most lookups suspended at `await fetch_data` at one time
MaxInFlight == 2

(***************************************************************************)
(* Values.                                                                 *)
(***************************************************************************)
None == "<None>"

EmptyDict == [k \in {} |-> None]

\* dict.get(key) / dict.get(key, default)
DictGet(d, k, default) == IF k \in DOMAIN d THEN d[k] ELSE default

\* d[k] = v
DictPut(d, k, v) == [x \in (DOMAIN d) \cup {k} |-> IF x = k THEN v ELSE d[x]]

\* Python truthiness of a JSON string-or-null value
Truthy(v) == v # "" /\ v # None

(***************************************************************************)
(* vin_app/models.py: the request validators.                              *)
(***************************************************************************)
Digits == {"0", "1", "2", "3", "4", "5", "6", "7", "8", "9"}

Letters ==
    {"A", "B", "C", "D", "E", "F", "G", "H", "I", "J", "K", "L", "M",
     "N", "O", "P", "Q", "R", "S", "T", "U", "V", "W", "X", "Y", "Z",
     "a", "b", "c", "d", "e", "f", "g", "h", "i", "j", "k", "l", "m",
     "n", "o", "p", "q", "r", "s", "t", "u", "v", "w", "x", "y", "z"}

\* str.isalnum(): at least one character, and all of them letters or digits
isalnum(s) == Len(s) > 0 /\ \A i \in 1..Len(s) : s[i] \in Digits \cup Letters

VIN_LENGTH == 17

\* VinPostRequest.validate_vin: TRUE when the validator raises ValueError
VinPostRequest_rejects(vin) == Len(vin) # VIN_LENGTH \/ ~isalnum(vin)

\* VinDeleteRequest.validate_vin: TRUE when the validator raises ValueError
VinDeleteRequest_rejects(vin) == (~(Len(vin) # VIN_LENGTH)) \/ ~isalnum(vin)

(***************************************************************************)
(* main.py: process_result.                                                *)
(***************************************************************************)
KEY_ATTRS == {"Make", "Model", "Model Year", "Body Class"}

ATTRS_COUNT == Cardinality(KEY_ATTRS)

\* the three ways process_result ends
ReturnDict(d) == [kind |-> "dict", value |-> d]

ReturnNone == [kind |-> "None", value |-> EmptyDict]

Raise404 == [kind |-> "HTTPException404", value |-> EmptyDict]

\* ScanResults without the test `item["Variable"] in KEY_ATTRS`
RECURSIVE ScanResults_AnyVariable(_, _, _, _)
ScanResults_AnyVariable(results, i, attr_filled_count, filtered_data) ==
    IF i > Len(results)
    THEN ReturnNone
    ELSE LET item == results[i] IN
         IF Truthy(item.Value)
         THEN LET filled == DictPut(filtered_data, item.Variable, item.Value)
                  count == attr_filled_count + 1
              IN  IF count = ATTRS_COUNT
                  THEN ReturnDict(filled)
                  ELSE ScanResults_AnyVariable(results, i + 1, count, filled)
         ELSE Raise404

\* ScanResults passing over an empty value instead of raising
RECURSIVE ScanResults_SkipEmpty(_, _, _, _)
ScanResults_SkipEmpty(results, i, attr_filled_count, filtered_data) ==
    IF i > Len(results)
    THEN ReturnNone
    ELSE LET item == results[i] IN
         IF item.Variable \in KEY_ATTRS /\ Truthy(item.Value)
         THEN LET filled == DictPut(filtered_data, item.Variable, item.Value)
                  count == attr_filled_count + 1
              IN  IF count = ATTRS_COUNT
                  THEN ReturnDict(filled)
                  ELSE ScanResults_SkipEmpty(results, i + 1, count, filled)
         ELSE ScanResults_SkipEmpty(results, i + 1, attr_filled_count, filtered_data)

\* the body of the for loop, from item i on
RECURSIVE ScanResults(_, _, _, _)
ScanResults(results, i, attr_filled_count, filtered_data) ==
    IF i > Len(results)
    THEN ReturnNone
    ELSE LET item == results[i] IN
         IF item.Variable \in KEY_ATTRS
         THEN IF Truthy(item.Value)
              THEN LET filled == DictPut(filtered_data, item.Variable, item.Value)
                       count == attr_filled_count + 1
                   IN  IF count = ATTRS_COUNT
                       THEN ReturnDict(filled)
                       ELSE ScanResults(results, i + 1, count, filled)
              ELSE Raise404
         ELSE ScanResults(results, i + 1, attr_filled_count, filtered_data)

process_result(data) == ScanResults(DictGet(data, "Results", <<>>), 1, 0, EmptyDict)

(***************************************************************************)
(* The Results items the extractor is run on: every recognized attribute   *)
(* with a value and with the empty value, and an unrecognized one.         *)
(***************************************************************************)
Item(variable, value) == [Variable |-> variable, Value |-> value]

SampleValue(variable) ==
    CASE variable = "Make" -> "BMW"
      [] variable = "Model" -> "X5"
      [] variable = "Model Year" -> "2022"
      [] variable = "Body Class" -> "SUV"
      [] OTHER -> "V8"

Variables == KEY_ATTRS \cup {"Engine Model"}

Items == {Item(n, SampleValue(n)) : n \in Variables} \cup {Item(n, "") : n \in Variables}

NotExtracted == [kind |-> "pending", value |-> EmptyDict]

(***************************************************************************)
(* vin_app/db.py: the vin_records table.  A row is a VinRecord; the        *)
(* columns other than the primary key are nullable.                        *)
(***************************************************************************)
VinRecord(vin, make, model, model_year, body_class) ==
    [vin |-> vin, make |-> make, model |-> model,
     model_year |-> model_year, body_class |-> body_class]

\* db.query(VinRecord).filter(VinRecord.vin == vin): the rows with that key
QueryByVin(table, vin) == {row \in table : row.vin = vin}

\* db.merge(row) in place of db.add(row): a row with the same key is replaced
CommitAdd_Upsert(table, row) ==
    [ok |-> TRUE, table |-> (table \ QueryByVin(table, row.vin)) \cup {row}]

\* db.add(row); db.commit() on a table without the primary key
CommitAdd_NoPrimaryKey(table, row) == [ok |-> TRUE, table |-> table \cup {row}]

\* db.add(row); db.commit(): the primary key on vin refuses a second row
\* with the same key (IntegrityError), and the table is left as it was
CommitAdd(table, row) ==
    IF QueryByVin(table, row.vin) # {}
    THEN [ok |-> FALSE, table |-> table]
    ELSE [ok |-> TRUE, table |-> table \cup {row}]

\* db.delete(row); db.commit()
CommitDelete(table, row) == table \ {row}

(***************************************************************************)
(* The candidate VINs a request carries.                                   *)
(***************************************************************************)
\* "1HGCM82633A004352"
VinHonda == <<"1","H","G","C","M","8","2","6","3","3","A","0","0","4","3","5","2">>

\* "testvinabcde12345"
VinTest == <<"t","e","s","t","v","i","n","a","b","c","d","e","1","2","3","4","5">>

\* "VIN123": alphanumeric, too short
VinShort == <<"V","I","N","1","2","3">>

\* "1HGCM82633A0043529": alphanumeric, 18 characters
VinLong == VinHonda \o <<"9">>

\* "1HGCM82633A00435-": 17 characters, one of them not alphanumeric
VinDash == SubSeq(VinHonda, 1, 16) \o <<"-">>

\* "VIN-45": too short and not alphanumeric
VinShortDash == <<"V","I","N","-","4","5">>

Candidates == {VinHonda, VinTest, VinShort, VinLong, VinDash, VinShortDash, <<>>}

(***************************************************************************)
(* The Remote Decoder: what `await http_client.get(url)` can end in.       *)
(***************************************************************************)
HondaResults ==
    <<Item("Make", "Honda"), Item("Model", "Accord"),
      Item("Model Year", "2003"), Item("Body Class", "Sedan")>>

\* all four attributes, out of order and between unrecognized ones
BmwResults ==
    <<Item("Engine Model", "V8"), Item("Body Class", "SUV"), Item("Model Year", "2022"),
      Item("Engine Model", ""), Item("Model", "X5"), Item("Make", "BMW")>>

\* test_process_result_null_value
EmptyModelResults ==
    <<Item("Make", "BMW"), Item("Model", ""),
      Item("Model Year", "2023"), Item("Body Class", "Coupe")>>

OnlyMakeResults == <<Item("Engine Model", "V8"), Item("Make", "BMW")>>

\* a recognized attribute named twice
RepeatedMakeResults ==
    <<Item("Make", "BMW"), Item("Make", "Audi"),
      Item("Model", "X5"), Item("Model Year", "2022")>>

RemotePayloads ==
    {[Results |-> r] : r \in {HondaResults, BmwResults, EmptyModelResults,
                              OnlyMakeResults, RepeatedMakeResults, <<>>}}
    \cup {[Message |-> "Results returned successfully"]}

\* "json": a 2xx response whose body is JSON; "timeout": httpx.TimeoutException
\* (a RequestError); "status": a non-2xx response; "not_json": a 2xx response
\* whose body is not JSON
RemoteOutcomes ==
    {[kind |-> "json", data |-> d] : d \in RemotePayloads}
    \cup {[kind |-> k, data |-> EmptyDict] : k \in {"timeout", "status", "not_json"}}

(***************************************************************************)
(* main.py: fetch_data.                                                    *)
(***************************************************************************)
Returned(data) == [kind |-> "return", data |-> data]

Raised(exc) == [kind |-> exc, data |-> EmptyDict]

fetch_data(outcome) ==
    CASE outcome.kind = "timeout" -> Raised("HTTPException500")
      [] outcome.kind = "status" -> Raised("HTTPException500")
      [] outcome.kind = "not_json" -> Raised("JSONDecodeError")
      [] OTHER -> Returned(outcome.data)

(***************************************************************************)
(* The responses.                                                          *)
(***************************************************************************)
Response(op, vin, status) ==
    [op |-> op, vin |-> vin, status |-> status,
     make |-> None, model |-> None, model_year |-> None, body_class |-> None,
     cached_result |-> FALSE, delete_success |-> FALSE, remote_calls |-> 0,
     columns |-> <<>>, rows |-> {}]

\* how the framework reports an exception a handler lets through
StatusOf(exc) ==
    CASE exc = "HTTPException404" -> "NotFound"
      [] exc = "HTTPException500" -> "RemoteUnavailable"
      [] OTHER -> "InternalError"

\* model.VinPostResponse(...): every field is a required str
VinPostResponse(vin, row, is_data_cached, calls) ==
    IF None \in {row.make, row.model, row.model_year, row.body_class}
    THEN [Response("lookup", vin, "InternalError") EXCEPT !.remote_calls = calls]
    ELSE [Response("lookup", vin, "OK") EXCEPT
              !.make = row.make, !.model = row.model,
              !.model_year = row.model_year, !.body_class = row.body_class,
              !.cached_result = is_data_cached, !.remote_calls = calls]

\* model.VinDeleteResponse(...)
VinDeleteResponse(vin, delete_success) ==
    [Response("remove", vin, "OK") EXCEPT !.delete_success = delete_success]

(***************************************************************************)
(* main.py: add_to_cache, up to `await fetch_data`.                        *)
(***************************************************************************)
\* new_vin = VinRecord(vin=..., make=filtered_data.get("Make"), ...)
NewVinRecord(vin, filtered_data) ==
    VinRecord(vin,
              DictGet(filtered_data, "Make", None),
              DictGet(filtered_data, "Model", None),
              DictGet(filtered_data, "Model Year", None),
              DictGet(filtered_data, "Body Class", None))

\* the hit response with is_data_cached left at False
CachedResponse_FlagNotSet(vin, cached_vin) == VinPostResponse(vin, cached_vin, FALSE, 0)

\* the response on a cache hit
CachedResponse(vin, cached_vin) == VinPostResponse(vin, cached_vin, TRUE, 0)

\* add_to_cache_begin with the request model left unchecked
add_to_cache_begin_NoValidation(table, vin) ==
    LET found == QueryByVin(table, vin) IN
    IF found # {}
    THEN [await |-> FALSE,
          response |-> VinPostResponse(vin, CHOOSE row \in found : TRUE, TRUE, 0)]
    ELSE [await |-> TRUE, response |-> Response("lookup", vin, "OK")]

\* the request model, the query, and the return on a hit; "await" when the
\* handler goes on to fetch_data
add_to_cache_begin(table, vin) ==
    IF VinPostRequest_rejects(vin)
    THEN [await |-> FALSE, response |-> Response("lookup", vin, "InvalidFormat")]
    ELSE LET found == QueryByVin(table, vin) IN
         IF found # {}
         THEN [await |-> FALSE,
               response |-> CachedResponse(vin, CHOOSE row \in found : TRUE)]
         ELSE [await |-> TRUE, response |-> Response("lookup", vin, "OK")]

\* the rest of the handler, from the end of the remote call
add_to_cache_resume(table, vin, outcome) ==
    LET failed(status) ==
            [table |-> table,
             response |-> [Response("lookup", vin, status) EXCEPT !.remote_calls = 1]]
        fetched == fetch_data(outcome)
    IN
    IF fetched.kind # "return"
    THEN failed(StatusOf(fetched.kind))
    ELSE LET filtered_data == process_result(fetched.data) IN
         IF filtered_data.kind = "HTTPException404"
         THEN failed(StatusOf("HTTPException404"))
         ELSE IF filtered_data.kind = "None"
         THEN \* None.get("Make"): AttributeError
              failed(StatusOf("AttributeError"))
         ELSE LET new_vin == NewVinRecord(vin, filtered_data.value)
                  commit == CommitAdd(table, new_vin)
              IN  IF ~commit.ok
                  THEN failed(StatusOf("IntegrityError"))
                  ELSE [table |-> commit.table,
                        response |-> VinPostResponse(vin, new_vin, FALSE, 1)]

(***************************************************************************)
(* main.py: remove_from_cache.                                             *)
(***************************************************************************)
\* remove_from_cache with the query left unfiltered: db.query(VinRecord).first()
remove_from_cache_NoFilter(table, vin) ==
    IF VinDeleteRequest_rejects(vin)
    THEN [table |-> table, response |-> Response("remove", vin, "InvalidFormat")]
    ELSE IF table = {}
         THEN [table |-> table, response |-> VinDeleteResponse(vin, FALSE)]
         ELSE [table |-> CommitDelete(table, CHOOSE row \in table : TRUE),
               response |-> VinDeleteResponse(vin, TRUE)]

remove_from_cache(table, vin) ==
    IF VinDeleteRequest_rejects(vin)
    THEN [table |-> table, response |-> Response("remove", vin, "InvalidFormat")]
    ELSE LET found == QueryByVin(table, vin) IN
         IF found = {}
         THEN [table |-> table, response |-> VinDeleteResponse(vin, FALSE)]
         ELSE [table |-> CommitDelete(table, CHOOSE row \in found : TRUE),
               response |-> VinDeleteResponse(vin, TRUE)]

(***************************************************************************)
(* main.py: export_cache.  pd.DataFrame(data) takes its columns from the   *)
(* keys of the dictionaries, so an empty list gives a frame with none.     *)
(***************************************************************************)
ExportColumns == <<"vin", "make", "model", "model_year", "body_class">>

export_cache(table) ==
    [Response("export", <<>>, "OK") EXCEPT
         !.columns = IF table = {} THEN <<>> ELSE ExportColumns,
         !.rows = table]

(***************************************************************************)
(* vin_app/db.py: get_db, the session of a request.  The dependency is     *)
(* entered when the request arrives and left when the request ends, by a   *)
(* return or by an exception.                                              *)
(***************************************************************************)
\* db = SessionLocal()
SessionLocal(open) == open + 1

\* how a request that ends with this response leaves `yield db`
ExitOf(response) == IF response.status = "OK" THEN "return" ELSE "raise"

\* get_db with db.close() after the yield, outside any finally
get_db_close_OnReturnOnly(open, exit) == IF exit = "return" THEN open - 1 ELSE open

\* try: yield db  finally: db.close()
get_db_close(open, exit) == open - 1

(***************************************************************************)
(* The service: requests arrive at any time; a lookup that misses the      *)
(* table is suspended at `await fetch_data` and resumed when the remote    *)
(* call ends; everything else in a handler runs without suspension.        *)
(***************************************************************************)
Init ==
    /\ store = {}
    /\ inflight = EmptyBag
    /\ last = Response("none", <<>>, "OK")
    /\ sessions = 0
    /\ raw = <<>>
    /\ extracted = NotExtracted

LookupBegin(vin) ==
    LET begun == add_to_cache_begin(store, vin) IN
    /\ IF begun.await
       THEN /\ BagCardinality(inflight) < MaxInFlight
            /\ inflight' = inflight (+) SetToBag({vin})
            /\ last' = last
            /\ sessions' = SessionLocal(sessions)
       ELSE /\ last' = begun.response
            /\ inflight' = inflight
            /\ sessions' = get_db_close(SessionLocal(sessions), ExitOf(begun.response))
    /\ UNCHANGED <<store, raw, extracted>>

LookupResume(vin, outcome) ==
    LET resumed == add_to_cache_resume(store, vin, outcome) IN
    /\ BagIn(vin, inflight)
    /\ inflight' = inflight (-) SetToBag({vin})
    /\ store' = resumed.table
    /\ last' = resumed.response
    /\ sessions' = get_db_close(sessions, ExitOf(resumed.response))
    /\ UNCHANGED <<raw, extracted>>

Remove(vin) ==
    LET removed == remove_from_cache(store, vin) IN
    /\ store' = removed.table
    /\ last' = removed.response
    /\ sessions' = get_db_close(SessionLocal(sessions), ExitOf(removed.response))
    /\ UNCHANGED <<inflight, raw, extracted>>

Export ==
    /\ last' = export_cache(store)
    /\ sessions' = get_db_close(SessionLocal(sessions), ExitOf(export_cache(store)))
    /\ UNCHANGED <<store, inflight, raw, extracted>>

Next ==
    \/ \E vin \in Candidates : LookupBegin(vin)
    \/ \E vin \in Candidates, outcome \in RemoteOutcomes : LookupResume(vin, outcome)
    \/ \E vin \in Candidates : Remove(vin)
    \/ Export

Spec == Init /\ [][Next]_vars

(***************************************************************************)
(* The extractor on its own: a Results list arrives item by item, and      *)
(* process_result is run on what has arrived.                              *)
(***************************************************************************)
InitExtract ==
    /\ raw = <<>>
    /\ extracted = NotExtracted
    /\ store = {}
    /\ inflight = EmptyBag
    /\ last = Response("none", <<>>, "OK")
    /\ sessions = 0

ReceiveItem(item) ==
    /\ Len(raw) < MaxRaw
    /\ raw' = Append(raw, item)
    /\ extracted' = NotExtracted
    /\ UNCHANGED <<store, inflight, last, sessions>>

Extract ==
    /\ extracted = NotExtracted
    /\ extracted' = process_result([Results |-> raw])
    /\ UNCHANGED <<raw, store, inflight, last, sessions>>

NextExtract ==
    \/ \E item \in Items : ReceiveItem(item)
    \/ Extract

SpecExtract == InitExtract /\ [][NextExtract]_vars

(***************************************************************************)
(* Properties of the service.                                              *)
(***************************************************************************)
ValidVin(vin) == Len(vin) = VIN_LENGTH /\ isalnum(vin)

FullRow(row) ==
    /\ Truthy(row.make)
    /\ Truthy(row.model)
    /\ Truthy(row.model_year)
    /\ Truthy(row.body_class)

\* the lookup response that carries the four attributes of a row
CarriesRow(response, row, cached) ==
    /\ response.op = "lookup"
    /\ response.status = "OK"
    /\ response.vin = row.vin
    /\ response.make = row.make
    /\ response.model = row.model
    /\ response.model_year = row.model_year
    /\ response.body_class = row.body_class
    /\ response.cached_result = cached

\* the remote call ended with a payload from which all four attributes are extracted
ExtractsAllFour(outcome) ==
    /\ outcome.kind = "json"
    /\ process_result(outcome.data).kind = "dict"
    /\ DOMAIN process_result(outcome.data).value = KEY_ATTRS

ExtractedRow(vin, outcome) ==
    LET d == process_result(outcome.data).value IN
    [vin |-> vin, make |-> d["Make"], model |-> d["Model"],
     model_year |-> d["Model Year"], body_class |-> d["Body Class"]]

\* C1: a lookup of a key the store does not hold, whose remote decode yields
\* all four attributes, answers cached_result = false with the extracted
\* values and stores them; the stored row stays as it is until a remove of
\* its key; and a lookup that finds it answers cached_result = true with the
\* same four values.
C1_FirstMissThenCached ==
    [][ /\ \A vin \in Candidates, outcome \in RemoteOutcomes :
              (LookupResume(vin, outcome) /\ QueryByVin(store, vin) = {}
                  /\ ExtractsAllFour(outcome))
              => /\ CarriesRow(last', ExtractedRow(vin, outcome), FALSE)
                 /\ store' = store \cup {ExtractedRow(vin, outcome)}
        /\ \A row \in store :
              FullRow(row) => (row \in store' \/ Remove(row.vin))
        /\ \A vin \in Candidates :
              (LookupBegin(vin) /\ \E row \in store : row.vin = vin /\ FullRow(row))
              => \E row \in store' : CarriesRow(last', row, TRUE)
      ]_vars

\* a second lookup has answered from the store
C1_Witness ==
    /\ last.op = "lookup"
    /\ last.status = "OK"
    /\ last.cached_result
    /\ \E row \in store : CarriesRow(last, row, TRUE)

\* C2: a lookup whose key the store holds returns the stored record with
\* cached_result = true, starts no remote call and leaves the store as it is.
C2_HitReturnsStored ==
    [][ \A vin \in Candidates :
           (LookupBegin(vin) /\ QueryByVin(store, vin) # {})
           => /\ \E row \in QueryByVin(store, vin) : CarriesRow(last', row, TRUE)
              /\ last'.remote_calls = 0
              /\ inflight' = inflight
              /\ store' = store
      ]_vars

\* C3: a lookup or a remove whose candidate is not 17 alphanumeric characters
\* ends with InvalidFormat.
C3_InvalidRejected ==
    (last.op \in {"lookup", "remove"} /\ ~ValidVin(last.vin))
    => last.status = "InvalidFormat"

\* C4: a remove of a valid key that is cached (the store holds its record,
\* with all four attributes) is accepted, deletes the record and answers
\* delete_success = true.
C4_RemoveCached ==
    [][ \A vin \in Candidates :
           (Remove(vin) /\ ValidVin(vin)
               /\ \E row \in QueryByVin(store, vin) : FullRow(row))
           => /\ last' = VinDeleteResponse(vin, TRUE)
              /\ QueryByVin(store', vin) = {}
      ]_vars

\* C5: a remove of a key the store does not hold answers delete_success = false,
\* not an error, and leaves the store as it is.
C5_RemoveAbsent ==
    [][ \A vin \in Candidates :
           (Remove(vin) /\ ValidVin(vin) /\ QueryByVin(store, vin) = {})
           => /\ last' = VinDeleteResponse(vin, FALSE)
              /\ store' = store
      ]_vars

\* C6: every record in the store has a non-empty make, model, model_year and
\* body_class.
C6_NoPartialRecord == \A row \in store : FullRow(row)

\* C7: a lookup that misses the store and whose extraction fails, by an empty
\* value or by never reaching four attributes, ends with NotFound and stores
\* nothing.
C7_ExtractionFailureNotFound ==
    [][ \A vin \in Candidates, outcome \in RemoteOutcomes :
           (LookupResume(vin, outcome) /\ outcome.kind = "json"
               /\ process_result(outcome.data).kind \in {"HTTPException404", "None"})
           => /\ last'.status = "NotFound"
              /\ store' = store
      ]_vars

\* C8: a lookup that misses the store and whose remote call fails (timeout,
\* non-success status, malformed payload) ends with RemoteUnavailable and
\* stores nothing.
C8_RemoteFailureUnavailable ==
    [][ \A vin \in Candidates, outcome \in RemoteOutcomes :
           (LookupResume(vin, outcome) /\ outcome.kind \in {"timeout", "status", "not_json"})
           => /\ last'.status = "RemoteUnavailable"
              /\ store' = store
      ]_vars

(***************************************************************************)
(* Properties of the extractor.                                            *)
(***************************************************************************)
Positions(results, variable) == {i \in DOMAIN results : results[i].Variable = variable}

\* each of the four attributes is named by exactly one item, with a value
EachOnceWithValue(results) ==
    \A n \in KEY_ATTRS :
        /\ Cardinality(Positions(results, n)) = 1
        /\ \A i \in Positions(results, n) : Truthy(results[i].Value)

ValueOf(results, variable) == results[CHOOSE i \in Positions(results, variable) : TRUE].Value

\* the recognized items with a value before item i
FilledBefore(results, i) ==
    Cardinality({j \in 1..(i - 1) :
                    results[j].Variable \in KEY_ATTRS /\ Truthy(results[j].Value)})

EmptyRecognized(results, i) ==
    results[i].Variable \in KEY_ATTRS /\ ~Truthy(results[i].Value)

NoAttributeFilledTwice(results) ==
    \A i, j \in DOMAIN results :
        (i # j /\ results[i].Variable = results[j].Variable
            /\ results[i].Variable \in KEY_ATTRS)
        => ~(Truthy(results[i].Value) /\ Truthy(results[j].Value))

\* C10, as claimed: a recognized item with an empty value anywhere in the list
\* makes process_result raise the 404 (stated for the lists that name no
\* attribute with a value twice, so that four items with a value are the four
\* attributes).
C10_EmptyAnywhereNotFound ==
    (extracted # NotExtracted /\ NoAttributeFilledTwice(raw)
        /\ \E i \in DOMAIN raw : EmptyRecognized(raw, i))
    => extracted = Raise404

\* C10, amended: a recognized item with an empty value makes process_result
\* raise the 404 when fewer than four recognized items with a value come
\* before it.
C10_EmptyBeforeFourthNotFound ==
    (extracted # NotExtracted
        /\ \E i \in DOMAIN raw :
              EmptyRecognized(raw, i) /\ FilledBefore(raw, i) < ATTRS_COUNT)
    => extracted = Raise404

\* the empty value is the last item, after three attributes with a value
C10_Witness ==
    /\ extracted = Raise404
    /\ Len(raw) = 5
    /\ EmptyRecognized(raw, 5)
    /\ FilledBefore(raw, 5) = 3
    /\ \A i \in 1..4 : ~EmptyRecognized(raw, i)

\* C11: process_result returns a dictionary only for a Results list that
\* names every one of the four attributes, lists that repeat an attribute
\* included.
C11_RecordNamesAllFour ==
    extracted.kind = "dict" => \A n \in KEY_ATTRS : Positions(raw, n) # {}

\* C12: an export returns one row for each record of the store, with the values
\* of the records, under the columns vin, make, model, model_year, body_class
\* in that order; on an empty store it returns no row under those five columns.
C12_ExportRowsAndColumns ==
    [][ Export
        => /\ last'.op = "export"
           /\ last'.status = "OK"
           /\ last'.rows = store
           /\ Cardinality(last'.rows) = Cardinality(store)
           /\ last'.columns = <<"vin", "make", "model", "model_year", "body_class">>
      ]_vars

\* C13: when two lookups of one valid VIN have both missed the store, the one
\* that inserts second does not end in an error: it answers as a cache hit,
\* and the store holds exactly one record of that VIN.
C13_ConflictIsCacheHit ==
    [][ \A vin \in Candidates, outcome \in RemoteOutcomes :
           (LookupResume(vin, outcome) /\ ExtractsAllFour(outcome)
               /\ \E row \in QueryByVin(store, vin) : FullRow(row))
           => /\ last'.op = "lookup"
              /\ last'.status = "OK"
              /\ Cardinality(QueryByVin(store', vin)) = 1
      ]_vars

\* C14: a lookup that ends in a failure leaves the store as it was before the
\* lookup.
C14_FailedLookupStoresNothing ==
    [][ /\ \A vin \in Candidates, outcome \in RemoteOutcomes :
              (LookupResume(vin, outcome) /\ last'.status # "OK") => store' = store
        /\ \A vin \in Candidates :
              (LookupBegin(vin) /\ last' # last /\ last'.status # "OK") => store' = store
      ]_vars

\* C15: a lookup starts at most one remote call; when the call or the
\* extraction fails the lookup ends, without another call; a lookup that the
\* validator rejects starts no call and answers without regard to the store.
C15_AtMostOneRemoteCall ==
    [][ /\ \A vin \in Candidates :
              LookupBegin(vin)
              => /\ BagCardinality(inflight') <= BagCardinality(inflight) + 1
                 /\ last'.remote_calls <= 1
        /\ \A vin \in Candidates :
              (LookupBegin(vin) /\ ~ValidVin(vin))
              => /\ inflight' = inflight
                 /\ store' = store
                 /\ last' = Response("lookup", vin, "InvalidFormat")
        /\ \A vin \in Candidates, outcome \in RemoteOutcomes :
              LookupResume(vin, outcome)
              => /\ inflight' = inflight (-) SetToBag({vin})
                 /\ last'.vin = vin
                 /\ last'.remote_calls = 1
      ]_vars

\* a lookup has ended in a failure after its one remote call, and is not
\* waiting for another
C15_Witness ==
    /\ last.op = "lookup"
    /\ last.status \in {"RemoteUnavailable", "NotFound"}
    /\ last.remote_calls = 1
    /\ ~BagIn(last.vin, inflight)

\* C16: a record in the store keeps its make, model, model_year and body_class
\* and stays in the store through every lookup, export and remove of another
\* key; it leaves the store only in a remove of its own VIN that answers
\* delete_success = true.
C16_RecordStaysUntilRemoved ==
    [][ \A row \in store :
           \/ row \in store'
           \/ /\ Remove(row.vin)
              /\ last' = VinDeleteResponse(row.vin, TRUE)
              /\ QueryByVin(store', row.vin) = {}
      ]_vars

\* two records are in the store after a remove of another key was answered
C16_Witness ==
    \E row \in store :
        /\ FullRow(row)
        /\ Cardinality(store) = 2
        /\ last.op = "remove"
        /\ last.vin # row.vin
        /\ last.status = "OK"

\* C17: the session of a request is closed when the request ends, on every
\* exit path: the sessions that are open are those of the lookups suspended
\* in their remote call, and no other.
C17_SessionReleased == sessions = BagCardinality(inflight)

\* a lookup has ended by an exception after its remote call, no request is in
\* progress and no session is open
C17_Witness ==
    /\ last.op = "lookup"
    /\ last.status \in {"RemoteUnavailable", "NotFound", "InternalError"}
    /\ last.remote_calls = 1
    /\ inflight = EmptyBag
    /\ sessions = 0

\* C18: under every interleaving of lookups and removes the store holds at
\* most one record for a VIN, and the vin of every record is 17 alphanumeric
\* characters.
C18_OneRecordPerValidVin ==
    /\ \A row \in store : Cardinality(QueryByVin(store, row.vin)) = 1
    /\ \A row \in store : Len(row.vin) = VIN_LENGTH /\ isalnum(row.vin)

\* a record is in the store while another lookup of its VIN, which missed the
\* store before the record was inserted, is still to insert
C18_Witness == \E row \in store : BagIn(row.vin, inflight)

\* the rows of the keys other than vin
OtherRows(table, vin) == {row \in table : row.vin # vin}

\* C19: a lookup or a remove of a key leaves the records of every other key as
\* they were, and an export leaves every record as it was.
C19_OnlyTheRequestedKeyChanges ==
    [][ /\ \A vin \in Candidates :
              (LookupBegin(vin) \/ Remove(vin)
                  \/ \E outcome \in RemoteOutcomes : LookupResume(vin, outcome))
              => OtherRows(store', vin) = OtherRows(store, vin)
        /\ Export => store' = store
      ]_vars

\* the record of one key is in the store, unchanged, after a lookup has
\* inserted the record of another key
C19_Witness ==
    /\ last.op = "lookup"
    /\ last.status = "OK"
    /\ ~last.cached_result
    /\ QueryByVin(store, last.vin) # {}
    /\ OtherRows(store, last.vin) # {}

====
